---- MODULE Spec2Model ----
(***************************************************************************)
(* Frame synchronisation and swap-chain lifecycle of HelloTriangle.        *)
(*                                                                         *)
(* The CPU side (main, run, mainLoop, drawFrame, recreateSwapChain) is a   *)
(* sequential program whose position is pc; it blocks in vkWaitForFences   *)
(* and vkDeviceWaitIdle.  The graphics queue, the present queue and the    *)
(* presentation engine run concurrently with it.                           *)
(***************************************************************************)
EXTENDS Integers, Sequences, FiniteSets, TLC

----------------------------------------------------------------------------
(* Program constants *)

MAX_FRAMES_IN_FLIGHT == 2

VK_NULL_HANDLE == -1

\* a value that is no fence handle: what lies beyond the end of a vector
Garbage == -2

----------------------------------------------------------------------------
(* Bounds of the model *)

\* number of drawFrame calls mainLoop makes before the window is closed
MaxFrames == 3

\* largest number of images a swap chain is created with
MaxImageCount == 2

----------------------------------------------------------------------------

Slots == 0 .. (MAX_FRAMES_IN_FLIGHT - 1)

ImageCounts == 1 .. MaxImageCount

\* VkResult values the code distinguishes; VK_ERROR_OUT_OF_HOST_MEMORY, which
\* all three calls may return, stands for every other error code.  A call that
\* returns it has enqueued nothing and has left the semaphores it names as
\* they were.
AcquireResults ==
    {"VK_SUCCESS", "VK_SUBOPTIMAL_KHR", "VK_ERROR_OUT_OF_DATE_KHR",
     "VK_ERROR_OUT_OF_HOST_MEMORY"}

SubmitResults == {"VK_SUCCESS", "VK_ERROR_OUT_OF_HOST_MEMORY"}

PresentResults ==
    {"VK_SUCCESS", "VK_SUBOPTIMAL_KHR", "VK_ERROR_OUT_OF_DATE_KHR",
     "VK_ERROR_OUT_OF_HOST_MEMORY"}

\* the creation steps of recreateSwapChain, in call order; each may throw
RebuildSteps ==
    << "createSwapChain", "createImageViews", "createRenderPass",
       "createGraphicsPipeline", "createFramebuffers", "createCommandBuffers" >>

VARIABLES
    pc,                        \* position of the CPU thread
    currentFrame,              \* size_t currentFrame
    frameBufferResized,        \* bool frameBufferResized
    inFlightFences,            \* slot -> the slot's fence is signalled
    imagesInFlight,            \* per image: the slot whose fence was recorded, or VK_NULL_HANDLE
    imageAvailableSemaphores,  \* slot -> [pending, signaled]: frames whose signal is outstanding
    renderFinishedSemaphores,  \* slot -> [pending, signaled]
    swapChain,                 \* the VkSwapchainKHR handle: "live" or "destroyed"
    swapChainImages,           \* [obj, size]: the images of a live or destroyed swap chain
    swapChainImageViews,       \* [obj, size]
    renderPass,                \* "live" or "destroyed"
    graphicsPipeline,          \* "live" or "destroyed"
    swapChainFramebuffers,     \* [obj, size]
    commandBuffers,            \* [obj, size]
    imageIndex,                \* local of drawFrame
    result,                    \* local of drawFrame
    caller,                    \* call site of recreateSwapChain: "acquire" or "present"
    width,                     \* local of recreateSwapChain: "zero" or "nonzero" (width or height 0)
    exitStatus,                \* what main has returned: "none" while it has not
    fbSize,                    \* the framebuffer's size while recreateSwapChain has read it:
                               \* "zero", "nonzero", and "unknown" once events are polled again
    graphicsQueue,             \* unfinished draw submissions
    presentQueue,              \* present requests not yet executed, in issue order
    frameNo,                   \* number of drawFrame calls started; names the frame
    slotAtEntry,               \* history: currentFrame when the drawFrame call started
    log,                       \* history: steps of the drawFrame call, in order
    outOfDate,                 \* history: the current swap chain was reported out of date
    resizedAtPresent,          \* history: frameBufferResized as read after vkQueuePresentKHR
    lastDraw,                  \* history: the submission executed last
    lastPresent                \* history: the present request executed last

cpuVars ==
    << pc, currentFrame, frameBufferResized, imageIndex, result, caller, width, exitStatus,
       fbSize >>

syncVars == << inFlightFences, imagesInFlight, imageAvailableSemaphores, renderFinishedSemaphores >>

swapVars ==
    << swapChain, swapChainImages, swapChainImageViews, renderPass, graphicsPipeline,
       swapChainFramebuffers, commandBuffers >>

queueVars == << graphicsQueue, presentQueue >>

histVars ==
    << frameNo, slotAtEntry, log, outOfDate, resizedAtPresent, lastDraw, lastPresent >>

vars == << cpuVars, syncVars, swapVars, queueVars, histVars >>

----------------------------------------------------------------------------
(* Helpers *)

Unsignaled == [pending |-> {}, signaled |-> {}]

\* a signal operation of frame f is defined on the semaphore
SemSignalPending(sem, f) == [sem EXCEPT !.pending = @ \cup {f}]

\* the signal operation of frame f executes
SemSignal(sem, f) == [pending |-> sem.pending \ {f}, signaled |-> sem.signaled \cup {f}]

\* a wait on a binary semaphore leaves it unsignalled
SemWait(sem) == [sem EXCEPT !.signaled = {}]

\* mutant: the slot is reduced modulo the slot count without being incremented
NextFrameNoAdvance(cf) == cf % MAX_FRAMES_IN_FLIGHT

\* currentFrame = (currentFrame + 1) % MAX_FRAMES_IN_FLIGHT
NextFrame(cf) == (cf + 1) % MAX_FRAMES_IN_FLIGHT

\* imagesInFlight[i]: inside the vector the stored value; outside it the read is
\* out of bounds and yields any value
ReadImagesInFlight(i) ==
    IF i < Len(imagesInFlight)
    THEN {imagesInFlight[i + 1]}
    ELSE Slots \cup {VK_NULL_HANDLE, Garbage}

\* imagesInFlight[i] = fence; outside the vector the write does not land in it
WriteImagesInFlight(i, fence) ==
    IF i < Len(imagesInFlight)
    THEN [imagesInFlight EXCEPT ![i + 1] = fence]
    ELSE imagesInFlight

\* mutant: the wait is made with a timeout of 0 and returns at once
VkWaitForFencesNoWait(fence) == TRUE

\* vkWaitForFences(device, 1, &fence, VK_TRUE, UINT64_MAX) returns once the fence
\* is signalled
VkWaitForFences(fence) == inFlightFences[fence]

\* mutant: an out-of-date result of the acquire is treated like a suboptimal one
AcquireOutcomeNoRecreate(r) ==
    IF r \notin {"VK_SUCCESS", "VK_SUBOPTIMAL_KHR", "VK_ERROR_OUT_OF_DATE_KHR"} THEN "throw"
    ELSE "continue"

\* mutant: a suboptimal result of the acquire is treated like an out-of-date one
AcquireOutcomeSuboptimalRecreates(r) ==
    IF r = "VK_ERROR_OUT_OF_DATE_KHR" \/ r = "VK_SUBOPTIMAL_KHR" THEN "recreate"
    ELSE IF r # "VK_SUCCESS" THEN "throw"
    ELSE "continue"

\* the branch taken on the result of vkAcquireNextImageKHR
AcquireOutcome(r) ==
    IF r = "VK_ERROR_OUT_OF_DATE_KHR" THEN "recreate"
    ELSE IF r # "VK_SUCCESS" /\ r # "VK_SUBOPTIMAL_KHR" THEN "throw"
    ELSE "continue"

\* mutant: the test after the present does not look at frameBufferResized
PresentOutcomeIgnoringResize(r, resized) ==
    IF r = "VK_ERROR_OUT_OF_DATE_KHR" \/ r = "VK_SUBOPTIMAL_KHR" THEN "recreate"
    ELSE IF r # "VK_SUCCESS" THEN "throw"
    ELSE "continue"

\* the branch taken on the result of vkQueuePresentKHR
PresentOutcome(r, resized) ==
    IF r = "VK_ERROR_OUT_OF_DATE_KHR" \/ r = "VK_SUBOPTIMAL_KHR" \/ resized THEN "recreate"
    ELSE IF r # "VK_SUCCESS" THEN "throw"
    ELSE "continue"

\* positions at which the program makes no further Vulkan call: an exception
\* has left run(), cleanup has destroyed the device, or the behaviour is undefined
Stopped == {"thrown", "cleanedUp", "undefined"}

\* mutant: recreateSwapChain and mainLoop without vkDeviceWaitIdle
DeviceIdleNoWait == TRUE

\* vkDeviceWaitIdle returns only when no queue has outstanding operations
DeviceIdle == graphicsQueue = {} /\ presentQueue = << >>

\* glfwGetFramebufferSize: the window system decides the size; "zero" stands for
\* a width or a height of 0
FramebufferSizes == {"zero", "nonzero"}

\* glfwPollEvents / glfwWaitEvents: when a size change is delivered (cb),
\* framebufferResizeCallback runs
Events(cb) == frameBufferResized' = (frameBufferResized \/ cb)

----------------------------------------------------------------------------
(* main and run: construction, initWindow, initVulkan, cleanup, return *)

\* the application object as constructed: no Vulkan object exists and the
\* vectors are empty, so no fence is signalled and no semaphore has a signal
Init ==
    /\ pc = "initWindow"
    /\ exitStatus = "none"
    /\ currentFrame = 0
    /\ frameBufferResized = FALSE
    /\ inFlightFences = [s \in Slots |-> FALSE]
    /\ imagesInFlight = << >>
    /\ imageAvailableSemaphores = [s \in Slots |-> Unsignaled]
    /\ renderFinishedSemaphores = [s \in Slots |-> Unsignaled]
    /\ swapChain = "null"
    /\ swapChainImages = [obj |-> "null", size |-> 0]
    /\ swapChainImageViews = [obj |-> "null", size |-> 0]
    /\ renderPass = "null"
    /\ graphicsPipeline = "null"
    /\ swapChainFramebuffers = [obj |-> "null", size |-> 0]
    /\ commandBuffers = [obj |-> "null", size |-> 0]
    /\ imageIndex = 0
    /\ result = "unset"
    /\ caller = "none"
    /\ width = "nonzero"
    /\ fbSize = "unknown"
    /\ graphicsQueue = {}
    /\ presentQueue = << >>
    /\ frameNo = 0
    /\ slotAtEntry = 0
    /\ log = << >>
    /\ outOfDate = FALSE
    /\ resizedAtPresent = FALSE
    /\ lastDraw = [frame |-> 0, by |-> {}]
    /\ lastPresent = [frame |-> 0, by |-> {}, drawDone |-> TRUE]

\* initWindow: GLFW calls only, none of which throws
InitWindow ==
    /\ pc = "initWindow"
    /\ pc' = "initVulkan"
    /\ UNCHANGED << currentFrame, frameBufferResized, imageIndex, result, caller, width,
                    exitStatus, fbSize, syncVars, swapVars, queueVars, histVars >>

\* initVulkan: every creation step may throw; when all succeed the swap chain
\* has n images, the fences are signalled, the semaphores unsignalled and no
\* image has a fence recorded.  After a throw nothing reads the objects the
\* earlier steps created.
InitVulkan ==
    /\ pc = "initVulkan"
    /\ \E ok \in BOOLEAN, n \in ImageCounts :
        IF ok
        THEN /\ pc' = "mainLoop"
             /\ swapChain' = "live"
             /\ swapChainImages' = [obj |-> "live", size |-> n]
             /\ swapChainImageViews' = [obj |-> "live", size |-> n]
             /\ renderPass' = "live"
             /\ graphicsPipeline' = "live"
             /\ swapChainFramebuffers' = [obj |-> "live", size |-> n]
             /\ commandBuffers' = [obj |-> "live", size |-> n]
             /\ imageAvailableSemaphores' = [s \in Slots |-> Unsignaled]
             /\ renderFinishedSemaphores' = [s \in Slots |-> Unsignaled]
             /\ inFlightFences' = [s \in Slots |-> TRUE]
             /\ imagesInFlight' = [i \in 1 .. n |-> VK_NULL_HANDLE]
        ELSE /\ pc' = "thrown"
             /\ UNCHANGED << syncVars, swapVars >>
    /\ UNCHANGED << currentFrame, frameBufferResized, imageIndex, result, caller, width,
                    exitStatus, fbSize, queueVars, histVars >>

\* run: cleanup, after mainLoop has returned; cleanupSwapChain destroys the
\* objects of the swap chain, then the semaphores, the fences and the device go
Cleanup ==
    /\ pc = "exited"
    /\ pc' = "cleanedUp"
    /\ swapChain' = "destroyed"
    /\ swapChainImages' = [swapChainImages EXCEPT !.obj = "destroyed"]
    /\ swapChainImageViews' = [swapChainImageViews EXCEPT !.obj = "destroyed"]
    /\ renderPass' = "destroyed"
    /\ graphicsPipeline' = "destroyed"
    /\ swapChainFramebuffers' = [swapChainFramebuffers EXCEPT !.obj = "destroyed"]
    /\ commandBuffers' = [commandBuffers EXCEPT !.obj = "destroyed"]
    /\ UNCHANGED << currentFrame, frameBufferResized, imageIndex, result, caller, width,
                    exitStatus, fbSize, syncVars, queueVars, histVars >>

\* mutant: the catch block of main ends without a return and falls through
MainReturnsAlwaysSuccess ==
    /\ pc \in {"cleanedUp", "thrown"}
    /\ exitStatus = "none"
    /\ exitStatus' = "EXIT_SUCCESS"
    /\ UNCHANGED << pc, currentFrame, frameBufferResized, imageIndex, result, caller, width,
                    fbSize, syncVars, swapVars, queueVars, histVars >>

\* main: run() has returned, or has thrown and the catch block has run.  pc
\* keeps the place where run() ended.
MainReturns ==
    /\ pc \in {"cleanedUp", "thrown"}
    /\ exitStatus = "none"
    /\ exitStatus' = IF pc = "thrown" THEN "EXIT_FAILURE" ELSE "EXIT_SUCCESS"
    /\ UNCHANGED << pc, currentFrame, frameBufferResized, imageIndex, result, caller, width,
                    fbSize, syncVars, swapVars, queueVars, histVars >>

----------------------------------------------------------------------------
(* mainLoop *)

\* one pass of the while loop up to the entry of drawFrame
MainLoopIter ==
    /\ pc = "mainLoop"
    /\ \E close \in (IF frameNo < MaxFrames THEN BOOLEAN ELSE {TRUE}) :
        IF close
        THEN /\ pc' = "deviceWaitIdle"
             /\ UNCHANGED << currentFrame, frameBufferResized, imageIndex, result, caller,
                             width, exitStatus, fbSize, histVars >>
        ELSE /\ \E cb \in BOOLEAN : Events(cb)
             /\ pc' = "waitFence"
             /\ frameNo' = frameNo + 1
             /\ slotAtEntry' = currentFrame
             /\ log' = << >>
             /\ resizedAtPresent' = FALSE
             /\ imageIndex' = 0
             /\ result' = "unset"
             /\ caller' = "none"
             /\ fbSize' = "unknown"
             /\ UNCHANGED << currentFrame, width, exitStatus, outOfDate, lastDraw, lastPresent >>
    /\ UNCHANGED << syncVars, swapVars, queueVars >>

\* mutant: mainLoop returns without vkDeviceWaitIdle
MainLoopExitNoWait ==
    /\ pc = "deviceWaitIdle"
    /\ pc' = "exited"
    /\ UNCHANGED << currentFrame, frameBufferResized, imageIndex, result, caller, width,
                    exitStatus, fbSize, syncVars, swapVars, queueVars, histVars >>

\* vkDeviceWaitIdle after the loop
MainLoopExit ==
    /\ pc = "deviceWaitIdle"
    /\ DeviceIdle
    /\ pc' = "exited"
    /\ UNCHANGED << currentFrame, frameBufferResized, imageIndex, result, caller, width,
                    exitStatus, fbSize,
                    syncVars, swapVars, queueVars, histVars >>

----------------------------------------------------------------------------
(* drawFrame *)

\* vkWaitForFences(inFlightFences[currentFrame])
WaitSlotFence ==
    /\ pc = "waitFence"
    /\ VkWaitForFences(currentFrame)
    /\ pc' = "acquire"
    /\ log' = Append(log, "waitSlotFence")
    /\ UNCHANGED << currentFrame, frameBufferResized, imageIndex, result, caller, width,
                    exitStatus, fbSize,
                    syncVars, swapVars, queueVars,
                    frameNo, slotAtEntry, outOfDate, resizedAtPresent, lastDraw, lastPresent >>

\* vkAcquireNextImageKHR and the test of its result
AcquireImage ==
    /\ pc = "acquire"
    /\ \E r \in AcquireResults, i \in 0 .. (swapChainImages.size - 1) :
        /\ result' = r
        /\ outOfDate' = (outOfDate \/ r = "VK_ERROR_OUT_OF_DATE_KHR")
        /\ IF r \in {"VK_SUCCESS", "VK_SUBOPTIMAL_KHR"}
           THEN /\ imageIndex' = i
                /\ imageAvailableSemaphores' =
                      [imageAvailableSemaphores EXCEPT
                          ![currentFrame] = SemSignalPending(@, frameNo)]
           ELSE UNCHANGED << imageIndex, imageAvailableSemaphores >>
        /\ CASE AcquireOutcome(r) = "recreate" ->
                   /\ pc' = "recreate"
                   /\ caller' = "acquire"
             [] AcquireOutcome(r) = "throw" ->
                   /\ pc' = "thrown"
                   /\ UNCHANGED caller
             [] OTHER ->
                   /\ pc' = "imageFence"
                   /\ UNCHANGED caller
    /\ log' = Append(log, "acquire")
    /\ UNCHANGED << currentFrame, frameBufferResized, width, exitStatus, fbSize,
                    inFlightFences, imagesInFlight,
                    renderFinishedSemaphores, swapVars, queueVars,
                    frameNo, slotAtEntry, resizedAtPresent, lastDraw, lastPresent >>

\* mutant: drawFrame without the image-in-flight check
WaitImageFenceOmitted ==
    /\ pc = "imageFence"
    /\ pc' = "submit"
    /\ UNCHANGED << currentFrame, frameBufferResized, imageIndex, result, caller, width,
                    exitStatus, fbSize,
                    syncVars, swapVars, queueVars, histVars >>

\* the wait on imagesInFlight[imageIndex] and the recording of the slot's fence.
\* With imageIndex beyond the end of the vector the accesses are undefined
\* behaviour: either the read yields some value, a wait on a value that is no
\* fence returns at once and the write lands outside the vector, or drawFrame
\* does not go on (the wait never returns, or the process is killed).
WaitImageFence ==
    /\ pc = "imageFence"
    /\ \E f \in ReadImagesInFlight(imageIndex),
          ub \in (IF imageIndex < Len(imagesInFlight) THEN {FALSE} ELSE BOOLEAN) :
        IF ub
        THEN /\ pc' = "undefined"
             /\ UNCHANGED << imagesInFlight, log >>
        ELSE /\ f \in Slots => VkWaitForFences(f)
             /\ imagesInFlight' = WriteImagesInFlight(imageIndex, currentFrame)
             /\ pc' = "submit"
             /\ log' = log \o << "waitImageFence", "recordImageFence" >>
    /\ UNCHANGED << currentFrame, frameBufferResized, imageIndex, result, caller, width,
                    exitStatus, fbSize,
                    inFlightFences, imageAvailableSemaphores, renderFinishedSemaphores,
                    swapVars, queueVars,
                    frameNo, slotAtEntry, outOfDate, resizedAtPresent, lastDraw, lastPresent >>

\* vkResetFences and vkQueueSubmit
SubmitDraw ==
    /\ pc = "submit"
    /\ inFlightFences' = [inFlightFences EXCEPT ![currentFrame] = FALSE]
    /\ \E r \in SubmitResults :
        IF r # "VK_SUCCESS"
        THEN /\ pc' = "thrown"
             /\ log' = Append(log, "resetFence")
             /\ UNCHANGED << graphicsQueue, renderFinishedSemaphores >>
        ELSE /\ pc' = "present"
             /\ log' = log \o << "resetFence", "submit" >>
             /\ graphicsQueue' = graphicsQueue \cup
                   {[frame |-> frameNo, slot |-> currentFrame, image |-> imageIndex]}
             /\ renderFinishedSemaphores' =
                   [renderFinishedSemaphores EXCEPT
                       ![currentFrame] = SemSignalPending(@, frameNo)]
    /\ UNCHANGED << currentFrame, frameBufferResized, imageIndex, result, caller, width,
                    exitStatus, fbSize,
                    imagesInFlight, imageAvailableSemaphores, swapVars, presentQueue,
                    frameNo, slotAtEntry, outOfDate, resizedAtPresent, lastDraw, lastPresent >>

\* vkQueuePresentKHR, the test of its result and, without recreation, the advance
PresentImage ==
    /\ pc = "present"
    /\ \E r \in PresentResults :
        /\ result' = r
        /\ presentQueue' =
              IF r # "VK_ERROR_OUT_OF_HOST_MEMORY"
              THEN Append(presentQueue,
                          [frame |-> frameNo, slot |-> currentFrame, image |-> imageIndex])
              ELSE presentQueue
        /\ outOfDate' = (outOfDate \/ r = "VK_ERROR_OUT_OF_DATE_KHR")
        /\ resizedAtPresent' = frameBufferResized
        /\ log' = IF PresentOutcome(r, frameBufferResized) = "continue"
                  THEN log \o << "present", "advance" >>
                  ELSE Append(log, "present")
        /\ CASE PresentOutcome(r, frameBufferResized) = "recreate" ->
                   /\ frameBufferResized' = FALSE
                   /\ pc' = "recreate"
                   /\ caller' = "present"
                   /\ UNCHANGED currentFrame
             [] PresentOutcome(r, frameBufferResized) = "throw" ->
                   /\ pc' = "thrown"
                   /\ UNCHANGED << currentFrame, frameBufferResized, caller >>
             [] OTHER ->
                   /\ currentFrame' = NextFrame(currentFrame)
                   /\ pc' = "mainLoop"
                   /\ UNCHANGED << frameBufferResized, caller >>
    /\ UNCHANGED << imageIndex, width,
                    exitStatus, fbSize, syncVars, swapVars, graphicsQueue,
                    frameNo, slotAtEntry, lastDraw, lastPresent >>

----------------------------------------------------------------------------
(* recreateSwapChain *)

\* the first glfwGetFramebufferSize and the first test of the loop
RecreateGetSize ==
    /\ pc = "recreate"
    /\ \E w \in FramebufferSizes : width' = w /\ fbSize' = w
    /\ pc' = IF width' = "zero" THEN "recreateWait" ELSE "recreateIdle"
    /\ log' = Append(log, "recreate")
    \* drawFrame does not read result again once it has called recreateSwapChain
    /\ result' = "unset"
    /\ resizedAtPresent' = FALSE
    /\ UNCHANGED << currentFrame, frameBufferResized, imageIndex, caller, exitStatus,
                    syncVars, swapVars, queueVars,
                    frameNo, slotAtEntry, outOfDate, lastDraw, lastPresent >>

\* one pass of the loop: glfwGetFramebufferSize reads the size, then
\* glfwWaitEvents processes the events that have arrived, among them changes of
\* the size (each runs the callback); the loop test sees the size read before
RecreateWaitEvents ==
    /\ pc = "recreateWait"
    /\ width' = fbSize
    /\ \E w \in FramebufferSizes, cb \in BOOLEAN :
        /\ fbSize' = w
        /\ w # fbSize => cb
        /\ Events(cb)
    /\ pc' = IF width' = "zero" THEN "recreateWait" ELSE "recreateIdle"
    /\ UNCHANGED << currentFrame, imageIndex, result, caller, exitStatus,
                    syncVars, swapVars, queueVars, histVars >>

\* cleanupSwapChain destroys every object of the swap chain and leaves the
\* handles and the vectors as they are; the first k creation steps then succeed
\* for a new swap chain of n images and replace what they create
Rebuilt(k, n) ==
    /\ swapChain' = IF k >= 1 THEN "live" ELSE "destroyed"
    /\ swapChainImages' =
          IF k >= 1 THEN [obj |-> "live", size |-> n]
          ELSE [swapChainImages EXCEPT !.obj = "destroyed"]
    /\ swapChainImageViews' =
          IF k >= 2 THEN [obj |-> "live", size |-> n]
          ELSE [swapChainImageViews EXCEPT !.obj = "destroyed"]
    /\ renderPass' = IF k >= 3 THEN "live" ELSE "destroyed"
    /\ graphicsPipeline' = IF k >= 4 THEN "live" ELSE "destroyed"
    /\ swapChainFramebuffers' =
          IF k >= 5 THEN [obj |-> "live", size |-> n]
          ELSE [swapChainFramebuffers EXCEPT !.obj = "destroyed"]
    /\ commandBuffers' =
          IF k >= 6 THEN [obj |-> "live", size |-> n]
          ELSE [commandBuffers EXCEPT !.obj = "destroyed"]

\* mutant: the return after the recreateSwapChain of the acquire is missing and
\* the slot advances as it does after the present
RecreateRebuildAlwaysAdvances ==
    /\ pc = "recreateIdle"
    /\ DeviceIdle
    /\ \E k \in 0 .. Len(RebuildSteps), n \in ImageCounts :
        /\ Rebuilt(k, n)
        /\ outOfDate' = IF k >= 1 THEN FALSE ELSE outOfDate
        /\ IF k < Len(RebuildSteps)
           THEN /\ pc' = "thrown"
                /\ UNCHANGED << currentFrame, log >>
           ELSE /\ pc' = "mainLoop"
                /\ currentFrame' = NextFrame(currentFrame)
                /\ log' = Append(log, "advance")
    /\ UNCHANGED << frameBufferResized, imageIndex, result, caller, width,
                    exitStatus, fbSize, syncVars,
                    queueVars, frameNo, slotAtEntry, resizedAtPresent,
                    lastDraw, lastPresent >>

\* vkDeviceWaitIdle, cleanupSwapChain, the creation steps, and the return to
\* drawFrame, which returns (after acquire) or advances the slot (after present)
RecreateRebuild ==
    /\ pc = "recreateIdle"
    /\ DeviceIdle
    /\ \E k \in 0 .. Len(RebuildSteps), n \in ImageCounts :
        /\ Rebuilt(k, n)
        /\ outOfDate' = IF k >= 1 THEN FALSE ELSE outOfDate
        /\ IF k < Len(RebuildSteps)
           THEN /\ pc' = "thrown"
                /\ UNCHANGED << currentFrame, log >>
           ELSE IF caller = "acquire"
           THEN /\ pc' = "mainLoop"
                /\ UNCHANGED << currentFrame, log >>
           ELSE /\ pc' = "mainLoop"
                /\ currentFrame' = NextFrame(currentFrame)
                /\ log' = Append(log, "advance")
    /\ UNCHANGED << frameBufferResized, imageIndex, result, caller, width,
                    exitStatus, fbSize, syncVars,
                    queueVars, frameNo, slotAtEntry, resizedAtPresent,
                    lastDraw, lastPresent >>

----------------------------------------------------------------------------
(* The device and the presentation engine *)

\* the image frame f acquired: that of its submission, or imageIndex while
\* drawFrame has not submitted yet
AcquiredImage(f) ==
    IF \E d \in graphicsQueue : d.frame = f
    THEN (CHOOSE d \in graphicsQueue : d.frame = f).image
    ELSE imageIndex

\* the presentation engine releases the acquired image, which it does once no
\* earlier present request of that image is still to be executed: the acquire's
\* signal of the image-available semaphore executes
AcquireSignal(s) ==
    /\ pc \notin Stopped
    /\ \E f \in imageAvailableSemaphores[s].pending :
        /\ \A k \in 1 .. Len(presentQueue) :
              presentQueue[k].frame < f => presentQueue[k].image # AcquiredImage(f)
        /\ imageAvailableSemaphores' =
              [imageAvailableSemaphores EXCEPT ![s] = SemSignal(@, f)]
    /\ UNCHANGED << cpuVars, inFlightFences, imagesInFlight, renderFinishedSemaphores,
                    swapVars, queueVars, histVars >>

\* a submission executes: its wait at the colour-attachment-output stage consumes
\* the image-available semaphore of its slot, and on completion it signals the
\* render-finished semaphore and the fence it was submitted with
GpuExecuteDraw(d) ==
    /\ pc \notin Stopped
    /\ d \in graphicsQueue
    /\ imageAvailableSemaphores[d.slot].signaled # {}
    /\ imageAvailableSemaphores' =
          [imageAvailableSemaphores EXCEPT ![d.slot] = SemWait(@)]
    /\ lastDraw' = [frame |-> d.frame, by |-> imageAvailableSemaphores[d.slot].signaled]
    /\ graphicsQueue' = graphicsQueue \ {d}
    /\ renderFinishedSemaphores' =
          [renderFinishedSemaphores EXCEPT ![d.slot] = SemSignal(@, d.frame)]
    /\ inFlightFences' = [inFlightFences EXCEPT ![d.slot] = TRUE]
    /\ UNCHANGED << cpuVars, imagesInFlight, swapVars, presentQueue,
                    frameNo, slotAtEntry, log, outOfDate, resizedAtPresent, lastPresent >>

\* the present queue executes its oldest request once the semaphore it waits
\* on is signalled
PresentExec ==
    /\ pc \notin Stopped
    /\ presentQueue # << >>
    /\ LET p == Head(presentQueue) IN
        /\ renderFinishedSemaphores[p.slot].signaled # {}
        /\ renderFinishedSemaphores' =
              [renderFinishedSemaphores EXCEPT ![p.slot] = SemWait(@)]
        /\ lastPresent' =
              [frame |-> p.frame,
               by |-> renderFinishedSemaphores[p.slot].signaled,
               drawDone |-> \A d \in graphicsQueue : d.frame # p.frame]
    /\ presentQueue' = Tail(presentQueue)
    /\ UNCHANGED << cpuVars, inFlightFences, imagesInFlight, imageAvailableSemaphores,
                    swapVars, graphicsQueue,
                    frameNo, slotAtEntry, log, outOfDate, resizedAtPresent, lastDraw >>

----------------------------------------------------------------------------

Next ==
    \/ InitWindow
    \/ InitVulkan
    \/ MainLoopIter
    \/ MainLoopExit
    \/ WaitSlotFence
    \/ AcquireImage
    \/ WaitImageFence
    \/ SubmitDraw
    \/ PresentImage
    \/ RecreateGetSize
    \/ RecreateWaitEvents
    \/ RecreateRebuild
    \/ Cleanup
    \/ MainReturns
    \/ \E s \in Slots : AcquireSignal(s)
    \/ \E d \in graphicsQueue : GpuExecuteDraw(d)
    \/ PresentExec

Spec == Init /\ [][Next]_vars

----------------------------------------------------------------------------
(* Properties *)

\* the drawFrame call has returned to mainLoop
Returned == pc = "mainLoop" /\ log # << >>

Logged(step) == \E i \in 1 .. Len(log) : log[i] = step

\* the state right after vkQueuePresentKHR and the test of its result
JustPresented ==
    /\ pc \in {"mainLoop", "recreate", "thrown"}
    /\ Logged("present")
    /\ ~Logged("recreate")

\* C1: every drawFrame call that reaches the presentation step and returns has
\* set currentFrame to (old currentFrame + 1) mod MAX_FRAMES_IN_FLIGHT, with or
\* without a recreation of the swap chain, and currentFrame is always a slot.
C1_RoundRobin ==
    /\ currentFrame \in 0 .. (MAX_FRAMES_IN_FLIGHT - 1)
    /\ (Returned /\ Logged("present")) =>
          currentFrame = (slotAtEntry + 1) % MAX_FRAMES_IN_FLIGHT

\* a call that recreated the swap chain after the present wraps the slot to 0
C1_Witness ==
    /\ Returned
    /\ Logged("present")
    /\ Logged("recreate")
    /\ slotAtEntry = MAX_FRAMES_IN_FLIGHT - 1
    /\ currentFrame = 0

\* C2: between the fence wait of drawFrame and its submit no submission made
\* with the current slot is unfinished, and no two unfinished submissions
\* share a slot.
C2_FenceGate ==
    /\ \A d1, d2 \in graphicsQueue : d1.slot = d2.slot => d1 = d2
    /\ pc \in {"acquire", "imageFence", "submit"} =>
          \A d \in graphicsQueue : d.slot # currentFrame

\* drawFrame has passed the gate of a slot used by an earlier frame while the
\* submission of the other slot is still unfinished
C2_Witness ==
    /\ pc = "acquire"
    /\ \E i \in 1 .. Len(imagesInFlight) : imagesInFlight[i] = currentFrame
    /\ graphicsQueue # {}

\* C3: commandBuffers[i] is never submitted while an earlier submission that
\* targets image i is unfinished.
C3_NoDoubleSubmission ==
    \A d1, d2 \in graphicsQueue : d1.image = d2.image => d1 = d2

\* C4: at most MAX_FRAMES_IN_FLIGHT submitted frames are unfinished.
C4_BoundedInFlight == Cardinality(graphicsQueue) <= MAX_FRAMES_IN_FLIGHT

\* every slot has an unfinished submission and drawFrame is held at the gate
C4_Witness ==
    /\ Cardinality(graphicsQueue) = MAX_FRAMES_IN_FLIGHT
    /\ pc = "waitFence"
    /\ ~inFlightFences[currentFrame]

\* C5: a draw passes its colour-attachment-output wait only on the signal of
\* its own frame's acquire, and a present executes only after the draw of its
\* own frame has signalled the render-finished semaphore.
C5_AcquireDrawPresent ==
    /\ lastDraw.frame # 0 => lastDraw.by = {lastDraw.frame}
    /\ lastPresent.frame # 0 => lastPresent.drawDone

\* C6: a drawFrame call that neither throws nor returns early performs, in
\* this order and once each: wait on the slot's fence, acquire, wait on and
\* record the image's fence, reset the fence and submit, present, advance.
C6_StepOrder ==
    (Returned /\ caller # "acquire") =>
        SelectSeq(log, LAMBDA step : step # "recreate") =
            << "waitSlotFence", "acquire", "waitImageFence", "recordImageFence",
               "resetFence", "submit", "present", "advance" >>

\* a call on the second slot that ran to its end
C6_Witness ==
    /\ Returned
    /\ caller # "acquire"
    /\ slotAtEntry = 1
    /\ Logged("advance")

\* C7: once the acquire or the present has reported the swap chain out of
\* date, drawFrame is inside recreateSwapChain (or has thrown) until a new swap
\* chain exists: it is not at an acquire, a submit or a present, and it has not
\* returned.
C7_OutOfDateRecreates ==
    outOfDate => pc \in {"recreate", "recreateWait", "recreateIdle", "thrown"}

\* recreateSwapChain waits for the device after an out-of-date present
C7_Witness ==
    /\ outOfDate
    /\ pc = "recreateIdle"
    /\ caller = "present"

\* C8: when recreateSwapChain has returned, every object of the swap chain is
\* one of the new swap chain, and every per-image collection, the fence
\* tracking included, has one entry per image of the new swap chain.
C8_AllRebuilt ==
    (Returned /\ Logged("recreate")) =>
        /\ swapChain = "live"
        /\ renderPass = "live"
        /\ graphicsPipeline = "live"
        /\ \A c \in {swapChainImages, swapChainImageViews, swapChainFramebuffers,
                      commandBuffers} :
              c.obj = "live" /\ c.size = swapChainImages.size
        /\ Len(imagesInFlight) = swapChainImages.size

\* C9: a present that finds frameBufferResized set, or that returns
\* VK_SUBOPTIMAL_KHR, is followed by recreateSwapChain, which starts with
\* frameBufferResized cleared.
C9_ResizeRecreates ==
    /\ (JustPresented /\ (resizedAtPresent \/ result = "VK_SUBOPTIMAL_KHR")) =>
          pc = "recreate"
    /\ (pc = "recreate" /\ caller = "present") => ~frameBufferResized

\* the present succeeded and only the resize callback asks for the recreation
C9_Witness ==
    /\ pc = "recreate"
    /\ caller = "present"
    /\ resizedAtPresent
    /\ result = "VK_SUCCESS"

\* C10: a result of the acquire, the submit or the present that is neither
\* VK_SUCCESS nor an out-of-date or suboptimal status makes drawFrame throw,
\* whatever frameBufferResized is.
C10_ErrorsThrow ==
    /\ result = "VK_ERROR_OUT_OF_HOST_MEMORY" => pc = "thrown"
    /\ (Logged("resetFence") /\ ~Logged("submit")) => pc = "thrown"

\* C11: main returns EXIT_FAILURE exactly when run() has ended with an
\* exception and EXIT_SUCCESS exactly when initWindow, initVulkan, mainLoop and
\* cleanup have all completed; after an exception no later step of run() runs,
\* so the objects are not destroyed by cleanup.
C11_ExitStatus ==
    /\ exitStatus \in {"none", "EXIT_FAILURE", "EXIT_SUCCESS"}
    /\ exitStatus = "EXIT_FAILURE" => pc = "thrown"
    /\ exitStatus = "EXIT_SUCCESS" => pc = "cleanedUp"
    /\ (pc = "thrown" /\ exitStatus # "none") => exitStatus = "EXIT_FAILURE"
    /\ (pc = "cleanedUp" /\ exitStatus # "none") => exitStatus = "EXIT_SUCCESS"
    /\ (pc = "thrown" /\ frameNo = 0) => swapChain = "null"
    /\ (pc = "thrown" /\ frameNo > 0 /\ ~Logged("recreate")) => swapChain = "live"

\* main has returned EXIT_FAILURE after an exception thrown by drawFrame
C11_Witness ==
    /\ exitStatus = "EXIT_FAILURE"
    /\ frameNo >= 2
    /\ swapChain = "live"

\* C12: every fence drawFrame can wait on is signalled or is the fence of a
\* submission still unfinished on the GPU, and what it reads from imagesInFlight
\* is VK_NULL_HANDLE or such a fence, so that no fence wait blocks forever.
C12_FenceWaitsTerminate ==
    /\ pc \notin {"initWindow", "initVulkan", "thrown"} =>
          \A s \in Slots : inFlightFences[s] \/ \E d \in graphicsQueue : d.slot = s
    /\ \A i \in 1 .. Len(imagesInFlight) : imagesInFlight[i] \in Slots \cup {VK_NULL_HANDLE}
    /\ pc = "imageFence" =>
          \A f \in ReadImagesInFlight(imageIndex) : f \in Slots \cup {VK_NULL_HANDLE}
    /\ pc # "undefined"

\* the steps of a drawFrame call whose acquire returned VK_ERROR_OUT_OF_DATE_KHR
OnAcquireOutOfDate ==
    \/ pc = "acquire" /\ result' = "VK_ERROR_OUT_OF_DATE_KHR"
    \/ caller = "acquire" /\ pc \in {"recreate", "recreateWait", "recreateIdle"}

\* what such a step leaves alone: nothing is submitted or presented, the slot,
\* its signalled fence and imagesInFlight stay, and the call is in
\* recreateSwapChain until it returns with a new swap chain or throws
AcquireOutOfDateFrame ==
    /\ currentFrame' = currentFrame
    /\ inFlightFences'[currentFrame]
    /\ imagesInFlight' = imagesInFlight
    /\ graphicsQueue' \subseteq graphicsQueue
    /\ Len(presentQueue') <= Len(presentQueue)
    /\ pc' \in {"recreate", "recreateWait", "recreateIdle", "mainLoop", "thrown"}
    /\ pc' = "mainLoop" => swapChain' = "live"

\* C13 (as claimed): when the acquire returns VK_ERROR_OUT_OF_DATE_KHR, drawFrame
\* recreates the swap chain and returns having submitted and presented nothing
\* and with currentFrame, the signalled fence of the slot, imagesInFlight and
\* frameBufferResized unchanged.
C13_AcquireOutOfDateChangesNothing ==
    [][OnAcquireOutOfDate =>
          (AcquireOutOfDateFrame /\ frameBufferResized' = frameBufferResized)]_vars

\* C13 (amended): as claimed, except that frameBufferResized is never cleared
\* and changes only by being set in the glfwWaitEvents of recreateSwapChain,
\* where the resize callback runs while the window is minimised.
C13_AcquireOutOfDateKeepsFlag ==
    [][OnAcquireOutOfDate =>
          /\ AcquireOutOfDateFrame
          /\ frameBufferResized => frameBufferResized'
          /\ frameBufferResized' # frameBufferResized => pc = "recreateWait"]_vars

\* a call on the second slot has returned early, with a fence recorded for an
\* image and the flag set by the callback
C13_Witness ==
    /\ Returned
    /\ caller = "acquire"
    /\ currentFrame = 1
    /\ frameBufferResized
    /\ \E i \in 1 .. Len(imagesInFlight) : imagesInFlight[i] # VK_NULL_HANDLE

\* C14: after the acquire, imageIndex is a valid index into imagesInFlight and
\* into commandBuffers, also after recreations that change the number of images.
C14_ImageIndexValid ==
    pc \in {"imageFence", "submit", "present"} =>
        /\ imageIndex < Len(imagesInFlight)
        /\ imageIndex < commandBuffers.size

\* C15: no semaphore of a slot is given a new signal operation while an
\* earlier signal of it is outstanding or has not been consumed by its wait.
C15_BinarySemaphores ==
    \A s \in Slots :
        /\ Cardinality(imageAvailableSemaphores[s].pending
                          \cup imageAvailableSemaphores[s].signaled) <= 1
        /\ Cardinality(renderFinishedSemaphores[s].pending
                          \cup renderFinishedSemaphores[s].signaled) <= 1

\* C16: cleanupSwapChain runs in recreateSwapChain only when no submission and
\* no present request is unfinished: when recreateSwapChain has destroyed the
\* objects (and returned or thrown), both queues are empty.
C16_IdleBeforeCleanupSwapChain ==
    /\ (Logged("recreate") /\ pc \notin {"recreateWait", "recreateIdle"}) =>
          (graphicsQueue = {} /\ presentQueue = << >>)
    /\ (pc # "cleanedUp" /\ "destroyed" \in {swapChain, renderPass, graphicsPipeline,
            swapChainImageViews.obj, swapChainFramebuffers.obj, commandBuffers.obj}) =>
          (graphicsQueue = {} /\ presentQueue = << >>)

\* recreateSwapChain has returned after a present, and the draw and the present
\* of that very frame were executed before it destroyed the objects
C16_Witness ==
    /\ Returned
    /\ Logged("recreate")
    /\ frameNo >= 2
    /\ lastDraw.frame = frameNo
    /\ lastPresent.frame = frameNo

\* C17: mainLoop calls drawFrame until the close request is seen and then
\* waits for the device: when mainLoop has returned, and when cleanup has run,
\* no submission and no present request is unfinished.
C17_IdleBeforeCleanup ==
    pc \in {"exited", "cleanedUp"} => (graphicsQueue = {} /\ presentQueue = << >>)

\* cleanup has run after frames whose last draw and present were executed
C17_Witness ==
    /\ pc = "cleanedUp"
    /\ frameNo >= 2
    /\ lastDraw.frame = frameNo
    /\ lastPresent.frame = frameNo

\* C18: recreateSwapChain destroys the old objects and calls createSwapChain
\* only when the framebuffer has neither width nor height 0, whatever size
\* changes arrived while it waited.
C18_CreateOnlyNonZero ==
    (Logged("recreate") /\ pc \in {"mainLoop", "thrown"}) => fbSize = "nonzero"

\* C19: after an acquire that returned VK_SUBOPTIMAL_KHR drawFrame does not
\* recreate the swap chain or return before the present: it is at the image
\* fence, the submit or the present (or the submit has thrown).
C19_SuboptimalAcquireContinues ==
    (result = "VK_SUBOPTIMAL_KHR" /\ Logged("acquire") /\ ~Logged("present")) =>
        /\ pc \in {"imageFence", "submit", "present", "thrown", "undefined"}
        /\ ~Logged("recreate")
        /\ pc = "thrown" => Logged("resetFence")
        /\ pc = "present" => Logged("submit")

\* the submission of a suboptimal image has been made and the present is next
C19_Witness ==
    /\ pc = "present"
    /\ result = "VK_SUBOPTIMAL_KHR"
    /\ Logged("submit")
    /\ \E d \in graphicsQueue : d.frame = frameNo

====
